---- MODULE Spec2Model ----
(***************************************************************************)
(* Model of src/server.js: the POST /webhook pipeline (ledger append,      *)
(* dispatch on eventType, the five message handlers and the media handler, *)
(* ledger annotate, response) over the Firestore collections it writes.    *)
(*                                                                         *)
(* A JSON object is a record whose DOMAIN is the set of keys it carries: a *)
(* missing key is `undefined` in the code.  A string the code parses       *)
(* (timestamp, created, data) is a sequence of one-character strings; an   *)
(* integer is its sequence of decimal digits, so that epoch values keep    *)
(* their real magnitude (1700000500 * 1000 = 1700000500000).               *)
(* Each request advances one await at a time; requests interleave at the   *)
(* awaits, and every store call either commits atomically or rejects.      *)
(*                                                                         *)
(* Spec is the webhook route.  SpecRead is GET /api/messages/:waNumber     *)
(* (primary query, fallback query on error code 9, conversion, sort,       *)
(* response) served from a collection the webhook route filled earlier.    *)
(***************************************************************************)
EXTENDS Integers, Sequences, FiniteSets, TLC

\* ------------------------------------------------------------------ bounds
\* Number of webhook requests the server receives in one behaviour.
MaxReq == 2
\* Number of times the wall clock advances in one behaviour.
MaxClock == 1

Reqs == 1..MaxReq

\* ------------------------------------------------------- objects and keys
Has(o, k) == k \in DOMAIN o
With(o, k, v) == [x \in DOMAIN o \cup {k} |-> IF x = k THEN v ELSE o[x]]
Without(o, k) == [x \in DOMAIN o \ {k} |-> o[x]]
\* {...a, ...b}: the keys of both, b's value where both carry the key.
Spread(a, b) == [x \in DOMAIN a \cup DOMAIN b |-> IF x \in DOMAIN b THEN b[x] ELSE a[x]]

\* ---------------------------------------------------------------- numbers
DigitChars == <<"0", "1", "2", "3", "4", "5", "6", "7", "8", "9">>
IsDigit(c) == \E i \in 1..10 : DigitChars[i] = c
DigitVal(c) == (CHOOSE i \in 1..10 : DigitChars[i] = c) - 1

NaN == <<-1>>

RECURSIVE LeadingDigits(_)
LeadingDigits(s) ==
    IF s = <<>> \/ ~IsDigit(Head(s)) THEN <<>>
    ELSE <<DigitVal(Head(s))>> \o LeadingDigits(Tail(s))

RECURSIVE StripZeros(_)
StripZeros(n) == IF Len(n) > 1 /\ Head(n) = 0 THEN StripZeros(Tail(n)) ELSE n

\* parseInt(s): the value of the longest prefix of decimal digits, NaN if none.
ParseInt(s) ==
    LET d == LeadingDigits(s) IN IF d = <<>> THEN NaN ELSE StripZeros(d)

\* n * 1000 on digit sequences.
Times1000(n) ==
    IF n = NaN THEN NaN ELSE IF n = <<0>> THEN n ELSE n \o <<0, 0, 0>>

\* Math.floor(n / 1000) and n % 1000 on digit sequences.
DivThousand(n) == IF Len(n) <= 3 THEN <<0>> ELSE SubSeq(n, 1, Len(n) - 3)
RECURSIVE SmallVal(_)
SmallVal(n) == IF n = <<>> THEN 0 ELSE 10 * SmallVal(SubSeq(n, 1, Len(n) - 1)) + n[Len(n)]
ModThousand(n) == IF Len(n) <= 3 THEN SmallVal(n) ELSE SmallVal(SubSeq(n, Len(n) - 2, Len(n)))

\* a <= b on digit sequences without leading zeros.
RECURSIVE LexLE(_, _)
LexLE(a, b) ==
    IF a = <<>> THEN TRUE
    ELSE IF Head(a) # Head(b) THEN Head(a) < Head(b)
    ELSE LexLE(Tail(a), Tail(b))
NumLE(a, b) == IF Len(a) # Len(b) THEN Len(a) < Len(b) ELSE LexLE(a, b)

\* A string that is a decimal numeral: isNaN(s) is false for it.
IsDigits(s) == s # <<>> /\ \A i \in 1..Len(s) : IsDigit(s[i])
\* 9999999999: a number above it is taken as milliseconds, otherwise as seconds.
SecMsBoundary == <<9, 9, 9, 9, 9, 9, 9, 9, 9, 9>>

\* --------------------------------------------------- Firestore Timestamp
\* Largest seconds value the Timestamp constructor accepts (9999-12-31T23:59:59Z).
MAX_SECONDS == <<2, 5, 3, 4, 0, 2, 3, 0, 0, 7, 9, 9>>

\* Timestamp.fromMillis(ms) throws for NaN and for seconds out of range.
FromMillisThrows(ms) == ms = NaN \/ ~NumLE(DivThousand(ms), MAX_SECONDS)
FromMillis(ms) ==
    [seconds |-> DivThousand(ms), nanoseconds |-> ModThousand(ms) * 1000000]
ToMillis(t) ==
    LET ms == t.nanoseconds \div 1000000
        low == <<ms \div 100, (ms \div 10) % 10, ms % 10>>
    IN  StripZeros(t.seconds \o low)

\* ------------------------------------------------------------- wall clock
ClockBase == <<1, 7, 0, 0, 0, 0, 0, 9, 0, 0>>
NowMillis(c) == ClockBase \o <<(c \div 100) % 10, (c \div 10) % 10, c % 10>>
\* Timestamp.now() when the clock reads c.
TimestampNow(c) == FromMillis(NowMillis(c))

\* new Date(s).getTime(): the instant of an ISO-8601 string; NaN (Invalid Date)
\* for anything else, in particular for a string of ten or more digits.
IsoInstant == <<"2", "0", "2", "3", "-", "1", "1", "-", "1", "4", "T",
                "2", "2", ":", "1", "3", ":", "2", "0", "Z">>
DateGetTime(s) ==
    IF s = IsoInstant THEN <<1, 7, 0, 0, 0, 0, 0, 0, 0, 0, 0, 0, 0>> ELSE NaN

\* s.toLowerCase() on the status strings the provider sends.
ToLowerCase(s) ==
    CASE s = "SENT" -> "sent"
      [] s = "Delivered" -> "delivered"
      [] OTHER -> s

\* ----------------------------------------------------------------- events
\* Epoch seconds as the provider sends them, a string of ten digits.
SecondsStr == <<"1", "7", "0", "0", "0", "0", "0", "5", "0", "0">>
SeedSecondsStr == <<"1", "7", "0", "0", "0", "0", "0", "0", "0", "0">>
\* Epoch milliseconds as a string of thirteen digits.
MillisStr == <<"1", "7", "0", "0", "0", "0", "0", "5", "0", "0", "0", "0", "0">>
\* "https://host/file?fileName=cat.jpg", cut at its separators.
MediaUrl == <<"https:", "/", "/", "host", "/", "file", "?", "fileName", "=", "cat.jpg">>

MsgIds == {"m1", "m2"}

TextMessage(id) ==
    [eventType |-> "message", type |-> "text", id |-> id, waId |-> "w1", text |-> "hi"]
MediaMessage(id) ==
    [eventType |-> "message", type |-> "image", id |-> id, waId |-> "w1", data |-> MediaUrl]
TemplateSent(et, id) ==
    [eventType |-> et, id |-> id, waId |-> "w1", text |-> "offer",
     templateName |-> "promo", created |-> IsoInstant, statusString |-> "SENT"]
SessionSent(et, id) ==
    [eventType |-> et, id |-> id, waId |-> "w1", text |-> "reply", timestamp |-> IsoInstant]
StatusEvent(et, id) ==
    [eventType |-> et, id |-> id, timestamp |-> SecondsStr]

\* A body that itself carries the keys the ledger uses for its own bookkeeping.
SelfDescribed(ev) ==
    Spread(ev, [receivedAt |-> SeedSecondsStr, processed |-> TRUE,
                processingResult |-> [status |-> "message_processed"]])

TemplateTypes == {"templateMessageSent", "templateMessageSent_v2"}
SessionTypes == {"sessionMessageSent", "sessionMessageSent_v2"}
DeliveredTypes == {"sentMessageDELIVERED", "sentMessageDELIVERED_v2"}
ReadTypes == {"sentMessageREAD", "sentMessageREAD_v2"}
KnownTypes ==
    {"message"} \cup TemplateTypes \cup SessionTypes \cup DeliveredTypes \cup ReadTypes

\* The request bodies the provider posts.
Events ==
    {TextMessage(i) : i \in MsgIds}
      \cup {With(TextMessage(i), "timestamp", SecondsStr) : i \in MsgIds}
      \cup {Without(TextMessage("m1"), "id"), Without(TextMessage("m1"), "text")}
      \cup {MediaMessage("m1")}
      \cup {TemplateSent(et, "m1") : et \in TemplateTypes}
      \cup {Without(Without(TemplateSent("templateMessageSent", "m2"), "created"), "statusString"),
            Without(TemplateSent("templateMessageSent", "m1"), "id")}
      \cup {SessionSent(et, "m1") : et \in SessionTypes}
      \cup {Without(SessionSent("sessionMessageSent", "m2"), "timestamp"),
            With(SessionSent("sessionMessageSent", "m2"), "timestamp", SecondsStr),
            Without(SessionSent("sessionMessageSent", "m1"), "id")}
      \cup {StatusEvent(et, i) : et \in DeliveredTypes \cup ReadTypes, i \in MsgIds}
      \cup {Without(StatusEvent(et, "m1"), "id") : et \in {"sentMessageDELIVERED", "sentMessageREAD"}}
      \cup {Without(StatusEvent(et, "m2"), "timestamp") : et \in {"sentMessageDELIVERED", "sentMessageREAD"}}
      \cup {[eventType |-> "messageFailed", id |-> "m1"], [id |-> "m1"]}
      \cup {SelfDescribed(TextMessage("m1"))}
      \cup {With(TextMessage("m1"), "timestamp", MillisStr)}

\* ------------------------------------------------------------- dispatch
supportedMediaTypes == {"image", "audio", "video", "voice", "document", "sticker"}

\* The handler the switch on event.eventType selects.
HandlerOfNoDefault(ev) ==
    IF ~Has(ev, "eventType") THEN "default"
    ELSE IF ev.eventType \in {"message", "messageFailed"}
         THEN IF Has(ev, "type") /\ ev.type \in {"image", "audio", "video", "voice", "document", "sticker"}
              THEN "handleMediaMessage" ELSE "handleMessage"
    ELSE IF ev.eventType \in {"templateMessageSent", "templateMessageSent_v2"}
         THEN "handleTemplateMessage"
    ELSE IF ev.eventType \in {"sessionMessageSent", "sessionMessageSent_v2"}
         THEN "handleSessionMessage"
    ELSE IF ev.eventType \in {"sentMessageDELIVERED", "sentMessageDELIVERED_v2"}
         THEN "handleDeliveryStatus"
    ELSE IF ev.eventType \in {"sentMessageREAD", "sentMessageREAD_v2"}
         THEN "handleReadStatus"
    ELSE "default"
HandlerOf(ev) ==
    IF ~Has(ev, "eventType") THEN "default"
    ELSE IF ev.eventType = "message"
         THEN IF Has(ev, "type") /\ ev.type \in supportedMediaTypes
              THEN "handleMediaMessage" ELSE "handleMessage"
    ELSE IF ev.eventType \in {"templateMessageSent", "templateMessageSent_v2"}
         THEN "handleTemplateMessage"
    ELSE IF ev.eventType \in {"sessionMessageSent", "sessionMessageSent_v2"}
         THEN "handleSessionMessage"
    ELSE IF ev.eventType \in {"sentMessageDELIVERED", "sentMessageDELIVERED_v2"}
         THEN "handleDeliveryStatus"
    ELSE IF ev.eventType \in {"sentMessageREAD", "sentMessageREAD_v2"}
         THEN "handleReadStatus"
    ELSE "default"

\* Truthiness of a string-valued key: present and not empty.
Truthy(ev, k) == Has(ev, k) /\ ev[k] # <<>>

\* An object literal that reads these keys of the event carries `undefined`
\* where the event lacks one; Firestore rejects such a document.
HasUndefined(ev, keys) == \E k \in keys : ~Has(ev, k)

\* ------------------------------------------------------ Firestore documents
\* A collection addressed by document id is a function from the ids of its
\* documents to their data; a collection written with add() only is the
\* sequence of its documents, the auto-generated id being the position.
EmptyCollection == <<>>
EmptyDocument == [k \in {} |-> ""]
\* doc(id).update() rejects with NOT_FOUND when there is no such document.
DocExistsAlways(coll, id) == TRUE
DocExists(coll, id) == id \in DOMAIN coll
\* The fields of the document at id, none when there is no such document.
DocData(coll, id) == IF id \in DOMAIN coll THEN coll[id] ELSE EmptyDocument
\* doc(id).set(data): create or replace the whole document.
DocSetAsAdd(coll, id, data) ==
    With(coll, "auto" \o ToString(Cardinality(DOMAIN coll) + 1), data)
DocSetAsMerge(coll, id, data) == With(coll, id, Spread(DocData(coll, id), data))
DocSet(coll, id, data) == With(coll, id, data)
\* doc(id).update(fields): merge the given fields into the existing document.
DocUpdateAsSet(coll, id, fields) == With(coll, id, fields)
DocUpdate(coll, id, fields) == With(coll, id, Spread(DocData(coll, id), fields))
\* add(data): a new document under a fresh id.
DocAdd(coll, data) == Append(coll, data)

\* ---------------------------------------------------------- handleMessage
MessageTimestamp(ev, c) ==
    IF Truthy(ev, "timestamp")
    THEN FromMillis(Times1000(ParseInt(ev.timestamp)))
    ELSE TimestampNow(c)
MessageData(ev, c) ==
    [id |-> ev.id, waId |-> ev.waId, text |-> ev.text, type |-> ev.type,
     timestamp |-> MessageTimestamp(ev, c),
     status |-> "received", direction |-> "incoming", rawData |-> ev]
\* What makes handleMessage throw before anything is written: an invalid
\* Timestamp, doc(undefined), or an undefined field value in set().
MessageThrows(ev) ==
    \/ Truthy(ev, "timestamp") /\ FromMillisThrows(Times1000(ParseInt(ev.timestamp)))
    \/ HasUndefined(ev, {"id", "waId", "text", "type"})

\* -------------------------------------------------- handleTemplateMessage
SentStatus(ev) ==
    IF Has(ev, "statusString") /\ ev.statusString # ""
    THEN ToLowerCase(ev.statusString) ELSE "sent"
TemplateData(ev, c) ==
    [id |-> ev.id, waId |-> ev.waId, text |-> ev.text, type |-> "template",
     templateName |-> ev.templateName,
     timestamp |-> IF Truthy(ev, "created")
                   THEN FromMillis(DateGetTime(ev.created)) ELSE TimestampNow(c),
     status |-> SentStatus(ev), direction |-> "outgoing", rawData |-> ev]
TemplateThrows(ev) ==
    \/ Truthy(ev, "created") /\ FromMillisThrows(DateGetTime(ev.created))
    \/ HasUndefined(ev, {"id", "waId", "text", "templateName"})

\* --------------------------------------------------- handleSessionMessage
SessionData(ev, c) ==
    [id |-> ev.id, waId |-> ev.waId, text |-> ev.text, type |-> "session",
     timestamp |-> IF Truthy(ev, "timestamp")
                   THEN FromMillis(DateGetTime(ev.timestamp)) ELSE TimestampNow(c),
     status |-> SentStatus(ev), direction |-> "outgoing", rawData |-> ev]
SessionThrows(ev) ==
    \/ Truthy(ev, "timestamp") /\ FromMillisThrows(DateGetTime(ev.timestamp))
    \/ HasUndefined(ev, {"id", "waId", "text"})

\* ------------------------------- handleDeliveryStatus / handleReadStatus
\* parseInt(event.timestamp) * 1000, NaN when the key is missing.
StatusMillis(ev) ==
    IF Has(ev, "timestamp") THEN Times1000(ParseInt(ev.timestamp)) ELSE NaN
DeliveryFields(ev) ==
    [status |-> "delivered", deliveredAt |-> FromMillis(StatusMillis(ev)),
     rawDeliveryData |-> ev]
ReadFields(ev) ==
    [status |-> "read", readAt |-> FromMillis(StatusMillis(ev)), rawReadData |-> ev]
\* doc(undefined) and Timestamp.fromMillis(NaN) throw before the update is sent.
StatusThrows(ev) == ~Has(ev, "id") \/ FromMillisThrows(StatusMillis(ev))

\* ----------------------------------------------------- handleMediaMessage
IsAbsoluteUrl(u) == Len(u) >= 4 /\ u[1] = "https:" /\ u[2] = "/" /\ u[3] = "/"
QueryStart(u) ==
    IF \E i \in 1..Len(u) : u[i] = "?"
    THEN CHOOSE i \in 1..Len(u) : u[i] = "?" /\ \A j \in 1..(i - 1) : u[j] # "?"
    ELSE Len(u) + 1
\* queryParams.fileName: the value of the fileName parameter, "" if there is none.
QueryFileName(u) ==
    LET q == QueryStart(u)
        hits == {i \in (q + 1)..(Len(u) - 2) : u[i] = "fileName" /\ u[i + 1] = "="}
    IN  IF hits = {} THEN ""
        ELSE LET i == CHOOSE h \in hits : \A g \in hits : h <= g
             IN  IF u[i + 2] = "&" THEN "" ELSE u[i + 2]
\* parsedUrl.pathname.split('/').pop()
PathLastSegment(u) ==
    LET q == QueryStart(u) IN
    IF q - 1 <= 4 \/ u[q - 1] = "/" THEN "" ELSE u[q - 1]
\* dataUrl.split('/').pop()
RECURSIVE AfterLastSlash(_)
AfterLastSlash(u) ==
    IF u = <<>> \/ u[Len(u)] = "/" THEN ""
    ELSE AfterLastSlash(SubSeq(u, 1, Len(u) - 1)) \o u[Len(u)]
DataUrl(ev) == IF Has(ev, "data") THEN ev.data ELSE <<>>
FileName(ev, c) ==
    LET u == DataUrl(ev) IN
    IF IsAbsoluteUrl(u)
    THEN IF QueryFileName(u) # "" THEN QueryFileName(u) ELSE PathLastSegment(u)
    ELSE IF AfterLastSlash(u) # "" THEN AfterLastSlash(u) ELSE "media_" \o ToString(c)
Caption(ev) ==
    IF Has(ev, ev.type) /\ Has(ev[ev.type], "caption") /\ ev[ev.type].caption # ""
    THEN ev[ev.type].caption
    ELSE IF Has(ev, "caption") /\ ev.caption # "" THEN ev.caption ELSE ""
AttachmentData(ev, c) ==
    [caption |-> Caption(ev), sha256 |-> DataUrl(ev), attachment_id |-> FileName(ev, c),
     type |-> ev.type,
     whatsapp_message_id |-> IF Has(ev, "id") /\ ev.id # "" THEN ev.id ELSE "null",
     timestamp |-> TimestampNow(c), attachment_url |-> DataUrl(ev)]

\* ------------------------------------------------------------------ state
VARIABLES
    clock,              \* the wall clock read by Timestamp.now()
    pc,                 \* per request: the await it is suspended at
    event,              \* per request: req.body
    eventRef,           \* per request: id of its wati_webhook_events document, 0 if none
    result,             \* per request: the handler's return value
    attachmentData,     \* per request: handleMediaMessage's local attachmentData
    response,           \* per request: the HTTP response sent
    caught,             \* per request: the error the catch block received
    ledger,             \* collection wati_webhook_events
    messages,           \* collection whatsapp_messages
    attachments,        \* collection whatsapp_attachments
    webhook_responses,  \* collection webhook_responses
    getPc,              \* the GET /api/messages request: the await it is suspended at
    waNumber,           \* the GET request: req.params.waNumber
    queryError,         \* the GET request: code of the error the primary query rejected with
    fallbackError,      \* the GET request: code of the error the fallback query rejected with
    getResponse         \* the GET request: the HTTP response sent

reqVars == <<pc, event, eventRef, result, attachmentData, response, caught>>
storeVars == <<ledger, messages, attachments, webhook_responses>>
getVars == <<getPc, waNumber, queryError, fallbackError, getResponse>>
vars == <<clock, pc, event, eventRef, result, attachmentData, response, caught,
          ledger, messages, attachments, webhook_responses,
          getPc, waNumber, queryError, fallbackError, getResponse>>

None == [none |-> TRUE]
NoResponse == [status |-> 0]
InternalServerError == [status |-> 500, body |-> [error |-> "Internal server error"]]
Success(ref) == [status |-> 200, body |-> [success |-> TRUE, eventId |-> ref]]

\* The order of the awaited steps of the webhook route.
PipelineDispatchFirst == <<"dispatch", "append", "annotate", "respond">>
PipelineRespondFirst == <<"append", "dispatch", "respond", "annotate">>
Pipeline == <<"append", "dispatch", "annotate", "respond">>
StageIndex(st) == CHOOSE i \in 1..Len(Pipeline) : Pipeline[i] = st
After(st) ==
    IF StageIndex(st) = Len(Pipeline) THEN "done" ELSE Pipeline[StageIndex(st) + 1]

\* A record an earlier run of the server left in whatsapp_messages.
SeedRecord == MessageData(With(TextMessage("m2"), "timestamp", SeedSecondsStr), 0)

Init ==
    /\ clock = 0
    /\ pc = [r \in Reqs |-> "idle"]
    /\ event = [r \in Reqs |-> None]
    /\ eventRef = [r \in Reqs |-> 0]
    /\ result = [r \in Reqs |-> None]
    /\ attachmentData = [r \in Reqs |-> None]
    /\ response = [r \in Reqs |-> NoResponse]
    /\ caught = [r \in Reqs |-> "none"]
    /\ ledger = <<>>
    /\ messages \in {EmptyCollection, DocSet(EmptyCollection, "m2", SeedRecord)}
    /\ attachments = <<>>
    /\ webhook_responses = <<>>
    /\ getPc = "idle"
    /\ waNumber = ""
    /\ queryError = 0
    /\ fallbackError = 0
    /\ getResponse = NoResponse

\* ---------------------------------------------------------------- actions
Tick ==
    /\ clock < MaxClock
    /\ clock' = clock + 1
    /\ UNCHANGED <<getVars, reqVars, storeVars>>

\* The catch block of the route: log the error, answer 500.
Fail(r, err) ==
    /\ pc' = [pc EXCEPT ![r] = "done"]
    /\ response' = [response EXCEPT ![r] = InternalServerError]
    /\ caught' = [caught EXCEPT ![r] = err]

\* The handler returned: keep its result and go on to the next step.
Return(r, res) ==
    /\ result' = [result EXCEPT ![r] = res]
    /\ pc' = [pc EXCEPT ![r] = After("dispatch")]
    /\ UNCHANGED <<response, caught>>

\* A POST /webhook request arrives; requests are numbered in order of arrival.
Receive(r) ==
    /\ pc[r] = "idle"
    /\ \A q \in Reqs : q < r => pc[q] # "idle"
    /\ \E ev \in Events : event' = [event EXCEPT ![r] = ev]
    /\ pc' = [pc EXCEPT ![r] = Pipeline[1]]
    /\ UNCHANGED <<getVars, clock, eventRef, result, attachmentData, response, caught, storeVars>>

\* The document the route adds to wati_webhook_events.
LedgerEntryBodyLast(ev, c) ==
    Spread([receivedAt |-> TimestampNow(c), processed |-> FALSE], ev)
LedgerEntry(ev, c) == Spread(ev, [receivedAt |-> TimestampNow(c), processed |-> FALSE])

LedgerAppend(r) ==
    /\ pc[r] = "append"
    /\ \/ /\ ledger' = DocAdd(ledger, LedgerEntry(event[r], clock))
          /\ eventRef' = [eventRef EXCEPT ![r] = Len(ledger) + 1]
          /\ pc' = [pc EXCEPT ![r] = After("append")]
          /\ UNCHANGED <<response, caught>>
       \/ /\ Fail(r, "UNAVAILABLE")
          /\ UNCHANGED <<ledger, eventRef>>
    /\ UNCHANGED <<getVars, clock, event, result, attachmentData, messages, attachments,
                   webhook_responses>>

\* A handler that ends in doc(event.id).set(data).
SetMessage(r, throws, data, res) ==
    /\ \/ /\ throws
          /\ Fail(r, "INVALID_ARGUMENT")
          /\ UNCHANGED <<messages, result>>
       \/ /\ ~throws
          /\ messages' = DocSet(messages, event[r].id, data)
          /\ Return(r, res)
       \/ /\ ~throws
          /\ Fail(r, "UNAVAILABLE")
          /\ UNCHANGED <<messages, result>>
    /\ UNCHANGED <<getVars, clock, event, eventRef, attachmentData, ledger, attachments,
                   webhook_responses>>

HandleMessage(r) ==
    /\ pc[r] = "dispatch"
    /\ HandlerOf(event[r]) = "handleMessage"
    /\ SetMessage(r, MessageThrows(event[r]), MessageData(event[r], clock),
                  [status |-> "message_processed"])

HandleTemplateMessage(r) ==
    /\ pc[r] = "dispatch"
    /\ HandlerOf(event[r]) = "handleTemplateMessage"
    /\ SetMessage(r, TemplateThrows(event[r]), TemplateData(event[r], clock),
                  [status |-> "template_processed"])

HandleSessionMessage(r) ==
    /\ pc[r] = "dispatch"
    /\ HandlerOf(event[r]) = "handleSessionMessage"
    /\ SetMessage(r, SessionThrows(event[r]), SessionData(event[r], clock),
                  [status |-> "session_message_processed"])

\* A handler that ends in doc(event.id).update(fields).
UpdateMessage(r, fields, res) ==
    /\ \/ /\ StatusThrows(event[r])
          /\ Fail(r, "INVALID_ARGUMENT")
          /\ UNCHANGED <<messages, result>>
       \/ /\ ~StatusThrows(event[r])
          /\ ~DocExists(messages, event[r].id)
          /\ Fail(r, "NOT_FOUND")
          /\ UNCHANGED <<messages, result>>
       \/ /\ ~StatusThrows(event[r])
          /\ DocExists(messages, event[r].id)
          /\ messages' = DocUpdate(messages, event[r].id, fields)
          /\ Return(r, res)
       \/ /\ ~StatusThrows(event[r])
          /\ Fail(r, "UNAVAILABLE")
          /\ UNCHANGED <<messages, result>>
    /\ UNCHANGED <<getVars, clock, event, eventRef, attachmentData, ledger, attachments,
                   webhook_responses>>

HandleDeliveryStatus(r) ==
    /\ pc[r] = "dispatch"
    /\ HandlerOf(event[r]) = "handleDeliveryStatus"
    /\ UpdateMessage(r, DeliveryFields(event[r]), [status |-> "delivery_status_updated"])

HandleReadStatus(r) ==
    /\ pc[r] = "dispatch"
    /\ HandlerOf(event[r]) = "handleReadStatus"
    /\ UpdateMessage(r, ReadFields(event[r]), [status |-> "read_status_updated"])

\* handleMediaMessage up to its first await: build attachmentData, add the
\* "Attachment handled" document to webhook_responses.  (Its branch for an
\* unsupported type is never taken from the route, which tests the same
\* condition before calling it.)  The handler writes no whatsapp_messages
\* document.
HandleMediaMessage(r) ==
    /\ pc[r] = "dispatch"
    /\ HandlerOf(event[r]) = "handleMediaMessage"
    /\ \/ /\ attachmentData' =
                [attachmentData EXCEPT ![r] = AttachmentData(event[r], clock)]
          /\ webhook_responses' = DocAdd(webhook_responses,
                [response |-> <<"Attachment handled: ", AttachmentData(event[r], clock)>>,
                 timestamp |-> TimestampNow(clock)])
          /\ pc' = [pc EXCEPT ![r] = "attach"]
          /\ UNCHANGED <<response, caught>>
       \/ /\ Fail(r, "UNAVAILABLE")
          /\ UNCHANGED <<attachmentData, webhook_responses>>
    /\ UNCHANGED <<getVars, clock, event, eventRef, result, ledger, messages, attachments>>

\* handleMediaMessage's own try/catch around whatsapp_attachments.add().
AttachMedia(r) ==
    /\ pc[r] = "attach"
    /\ \/ /\ attachments' = DocAdd(attachments, attachmentData[r])
          /\ Return(r, [status |-> "media_processed",
                        attachmentId |-> Len(attachments) + 1,
                        type |-> event[r].type])
       \/ /\ Return(r, [status |-> "media_insert_failed",
                        error |-> "UNAVAILABLE",
                        type |-> event[r].type])
          /\ UNCHANGED attachments
    /\ UNCHANGED <<getVars, clock, event, eventRef, attachmentData, ledger, messages,
                   webhook_responses>>

\* The default case of the switch: no store call.
Unhandled(r) ==
    /\ pc[r] = "dispatch"
    /\ HandlerOf(event[r]) = "default"
    /\ Return(r, IF Has(event[r], "eventType")
                 THEN [status |-> "unhandled", eventType |-> event[r].eventType]
                 ELSE [status |-> "unhandled"])
    /\ UNCHANGED <<getVars, clock, event, eventRef, attachmentData, storeVars>>

\* processingResult with eventType: undefined is rejected by update().
ResultHasUndefined(r) ==
    result[r].status = "unhandled" /\ ~Has(result[r], "eventType")

\* eventRef.update({processed: true, processingResult: result})
LedgerAnnotate(r) ==
    /\ pc[r] = "annotate"
    /\ \/ /\ ResultHasUndefined(r)
          /\ Fail(r, "INVALID_ARGUMENT")
          /\ UNCHANGED ledger
       \/ /\ ~ResultHasUndefined(r)
          /\ ledger' = DocUpdate(ledger, eventRef[r],
                                 [processed |-> TRUE, processingResult |-> result[r]])
          /\ pc' = [pc EXCEPT ![r] = After("annotate")]
          /\ UNCHANGED <<response, caught>>
       \/ /\ ~ResultHasUndefined(r)
          /\ Fail(r, "UNAVAILABLE")
          /\ UNCHANGED ledger
    /\ UNCHANGED <<getVars, clock, event, eventRef, result, attachmentData, messages,
                   attachments, webhook_responses>>

\* res.status(200).json({ success: true, eventId: eventRef.id })
Respond(r) ==
    /\ pc[r] = "respond"
    /\ response' = [response EXCEPT ![r] = Success(eventRef[r])]
    /\ pc' = [pc EXCEPT ![r] = After("respond")]
    /\ UNCHANGED <<getVars, clock, event, eventRef, result, attachmentData, caught, storeVars>>

Next ==
    \/ Tick
    \/ \E r \in Reqs :
        \/ Receive(r)
        \/ LedgerAppend(r)
        \/ HandleMessage(r)
        \/ HandleTemplateMessage(r)
        \/ HandleSessionMessage(r)
        \/ HandleDeliveryStatus(r)
        \/ HandleReadStatus(r)
        \/ HandleMediaMessage(r)
        \/ AttachMedia(r)
        \/ Unhandled(r)
        \/ LedgerAnnotate(r)
        \/ Respond(r)

Spec == Init /\ [][Next]_vars

\* ======================================== GET /api/messages/:waNumber
\* limit(50) of both queries.
QueryLimit == 50
\* gRPC status code of "the query requires an index".
FAILED_PRECONDITION == 9
\* Codes a rejected get() carries: DEADLINE_EXCEEDED, FAILED_PRECONDITION,
\* UNAVAILABLE.
ErrorCodes == {4, FAILED_PRECONDITION, 14}
\* Number of documents of the small collections a behaviour starts from.
MaxFew == 3
\* Number of documents a counterparty has beyond the limit.
MaxOver == 2
MaxDocs == QueryLimit + MaxOver + 1

WaNumbers == {"911", "922", "933"}

\* Document names, listed in the order Firestore sorts them (by name).
DocName(i) == "w" \o ToString(100 + i)
DocNames == [i \in 1..(MaxDocs + 1) |-> DocName(i - 1)]
DocsInNameOrder(coll) == SelectSeq(DocNames, LAMBDA id : id \in DOMAIN coll)

\* Lexicographic order of sort keys, a proper prefix first.
RECURSIVE KeyLE(_, _)
KeyLE(a, b) ==
    IF a = <<>> THEN TRUE
    ELSE IF b = <<>> THEN FALSE
    ELSE IF Head(a) # Head(b) THEN Head(a) < Head(b)
    ELSE KeyLE(Tail(a), Tail(b))
\* Stable sort of a sequence of [key, val] by key: an element goes after
\* those of smaller key and after the earlier ones of equal key.
SortByKey(s) ==
    LET before == [j \in 1..Len(s) |->
                    {k \in 1..Len(s) : IF s[k].key = s[j].key THEN k < j
                                       ELSE KeyLE(s[k].key, s[j].key)}]
    IN  [i \in 1..Len(s) |-> s[CHOOSE j \in 1..Len(s) : Cardinality(before[j]) = i - 1]]
Values(s) == [i \in 1..Len(s) |-> s[i].val]
Limit(s, n) == SubSeq(s, 1, IF Len(s) < n THEN Len(s) ELSE n)

\* A stored timestamp is a Timestamp [seconds, nanoseconds], a string
\* [string |-> characters] or a number [number |-> digits].
CharCode(c) ==
    CASE IsDigit(c) -> 48 + DigitVal(c)
      [] c = "-" -> 45
      [] c = ":" -> 58
      [] c = "T" -> 84
      [] c = "Z" -> 90
\* Firestore's order of field values: numbers, then timestamps, then strings;
\* numbers and timestamps by value, strings by their characters.
OrderKey(ts) ==
    IF Has(ts, "number") THEN <<1, Len(ts.number)>> \o ts.number
    ELSE IF Has(ts, "seconds") THEN <<2, Len(ToMillis(ts))>> \o ToMillis(ts)
    ELSE <<3>> \o [i \in 1..Len(ts.string) |-> CharCode(ts.string[i])]

\* where('waId', '==', wa): the matching documents, in name order.
Where(coll, wa) ==
    SelectSeq(DocsInNameOrder(coll), LAMBDA id : Has(coll[id], "waId") /\ coll[id].waId = wa)
\* .orderBy('timestamp', 'asc'): documents carrying the field, by its value,
\* then by name.
OrderByTimestamp(coll, ids) ==
    LET carrying == SelectSeq(ids, LAMBDA id : Has(coll[id], "timestamp"))
    IN  Values(SortByKey([i \in 1..Len(carrying) |->
            [key |-> OrderKey(coll[carrying[i]].timestamp), val |-> carrying[i]]]))
\* The documents the primary and the fallback query return.
PrimaryQuery(coll, wa) == Limit(OrderByTimestamp(coll, Where(coll, wa)), QueryLimit)
FallbackQuery(coll, wa) == Limit(Where(coll, wa), QueryLimit)

\* The timestamp conversion of the two map() callbacks.
TimestampMillis(data, c) ==
    IF ~Has(data, "timestamp") THEN NowMillis(c)
    ELSE IF Has(data.timestamp, "seconds") THEN ToMillis(data.timestamp)
    ELSE IF Has(data.timestamp, "string") THEN
        IF ~IsDigits(data.timestamp.string) THEN DateGetTime(data.timestamp.string)
        ELSE Times1000(ParseInt(data.timestamp.string))
    ELSE IF Has(data.timestamp, "number") THEN
        IF ~NumLE(data.timestamp.number, SecMsBoundary) THEN data.timestamp.number
        ELSE Times1000(data.timestamp.number)
    ELSE NowMillis(c)
\* Largest time value of a Date: toISOString() throws beyond it.
MaxDateMillis == <<8, 6, 4, 0, 0, 0, 0, 0, 0, 0, 0, 0, 0, 0, 0, 0>>
\* new Date(ms).toISOString(), the current time's if it throws; the ISO
\* string is represented by the instant it denotes.
FormattedDate(ms, c) ==
    [iso |-> IF ms = NaN \/ ~NumLE(ms, MaxDateMillis) THEN NowMillis(c) ELSE ms]
\* The object a map() callback returns for a document.
MessageView(id, data, c) ==
    Spread([id |-> id,
            timestamp |-> TimestampMillis(data, c),
            formattedDate |-> FormattedDate(TimestampMillis(data, c), c)],
           [k \in {"text", "direction", "status", "waId"} \cap DOMAIN data |-> data[k]])
MapDocs(coll, ids, c) == [i \in 1..Len(ids) |-> MessageView(ids[i], coll[ids[i]], c)]
\* messages.sort((a, b) => a.timestamp - b.timestamp), which is stable.
SortKeepsOrder(views) == views
SortByTimestamp(views) ==
    Values(SortByKey([i \in 1..Len(views) |->
        [key |-> <<Len(views[i].timestamp)>> \o views[i].timestamp, val |-> views[i]]]))
Ok(views) == [status |-> 200, body |-> views]
FetchFailed == [status |-> 500, body |-> [error |-> "Failed to fetch messages"]]
\* queryError.code === 9
RetriesNever(code) == FALSE
Retries(code) == code = FAILED_PRECONDITION

\* The contents of whatsapp_messages the GET request is served from: n
\* documents of counterparty 911 named in sequence, whose timestamps ascend
\* with the names, descend, or come in equal pairs; all of them Timestamps, or
\* some of them the strings and numbers earlier versions stored; with or
\* without documents of counterparty 922 named before and after them.
Digits3(k) == <<k \div 100, (k \div 10) % 10, k % 10>>
SecondsOf(k) == <<1, 7, 0, 0, 0, 0, 0>> \o Digits3(k)
Chars(n) == [i \in 1..Len(n) |-> DigitChars[n[i] + 1]]
StoredTimestamp(form, k) ==
    CASE form = 0 -> FromMillis(Times1000(SecondsOf(k)))
      [] form = 1 -> [string |-> Chars(SecondsOf(k))]
      [] form = 2 -> [number |-> Times1000(SecondsOf(k))]
      [] form = 3 -> [number |-> SecondsOf(k)]
      [] form = 4 -> [string |-> IsoInstant]
StoredMessage(wa, ts) ==
    [waId |-> wa, text |-> "hi", direction |-> "incoming", status |-> "received",
     timestamp |-> ts]
Orders == {"ascending", "descending", "pairs"}
TimeOf(order, n, i) ==
    CASE order = "ascending" -> i
      [] order = "descending" -> n + 1 - i
      [] order = "pairs" -> (i + 1) \div 2
StoreSizes == (0..MaxFew) \cup ((QueryLimit + 1)..(QueryLimit + MaxOver))
StoredCollection(n, order, legacy, others) ==
    [id \in {DocName(i) : i \in (IF others THEN 0..(n + 1) ELSE 1..n)} |->
        LET i == CHOOSE j \in 0..(n + 1) : DocName(j) = id
        IN  IF i = 0 \/ i = n + 1 THEN StoredMessage("922", StoredTimestamp(0, 500 + i))
            ELSE StoredMessage("911",
                    StoredTimestamp(IF legacy THEN i % 5 ELSE 0, TimeOf(order, n, i)))]
StoredCollections ==
    {StoredCollection(n, order, legacy, others) :
        n \in StoreSizes, order \in Orders, legacy \in BOOLEAN, others \in BOOLEAN}

InitRead ==
    /\ clock = 0
    /\ pc = [r \in Reqs |-> "idle"]
    /\ event = [r \in Reqs |-> None]
    /\ eventRef = [r \in Reqs |-> 0]
    /\ result = [r \in Reqs |-> None]
    /\ attachmentData = [r \in Reqs |-> None]
    /\ response = [r \in Reqs |-> NoResponse]
    /\ caught = [r \in Reqs |-> "none"]
    /\ ledger = <<>>
    /\ messages \in StoredCollections
    /\ attachments = <<>>
    /\ webhook_responses = <<>>
    /\ getPc = "idle"
    /\ waNumber = ""
    /\ queryError = 0
    /\ fallbackError = 0
    /\ getResponse = NoResponse

\* The request arrives; the route parameter is never empty.
Get ==
    /\ getPc = "idle"
    /\ \E wa \in WaNumbers : waNumber' = wa
    /\ getPc' = "query"
    /\ UNCHANGED <<queryError, fallbackError, getResponse, clock, reqVars, storeVars>>

\* The primary query resolves: an empty snapshot is answered with [], any
\* other is mapped, sorted and sent.
QueryPrimary ==
    /\ getPc = "query"
    /\ getResponse' =
            IF PrimaryQuery(messages, waNumber) = <<>> THEN Ok(<<>>)
            ELSE Ok(SortByTimestamp(MapDocs(messages, PrimaryQuery(messages, waNumber), clock)))
    /\ getPc' = "done"
    /\ UNCHANGED <<waNumber, queryError, fallbackError, clock, reqVars, storeVars>>

\* The primary query rejects: code 9 leads to the fallback query, any other
\* code is rethrown to the outer catch.
QueryPrimaryRejects ==
    /\ getPc = "query"
    /\ \E code \in ErrorCodes :
        /\ queryError' = code
        /\ IF Retries(code)
           THEN getPc' = "fallback" /\ UNCHANGED getResponse
           ELSE getPc' = "done" /\ getResponse' = FetchFailed
    /\ UNCHANGED <<waNumber, fallbackError, clock, reqVars, storeVars>>

\* The fallback query resolves: its documents are mapped, sorted and sent.
QueryFallback ==
    /\ getPc = "fallback"
    /\ getResponse' = Ok(SortByTimestamp(MapDocs(messages, FallbackQuery(messages, waNumber), clock)))
    /\ getPc' = "done"
    /\ UNCHANGED <<waNumber, queryError, fallbackError, clock, reqVars, storeVars>>

\* The fallback query rejects inside the catch block: the outer catch answers.
QueryFallbackRejects ==
    /\ getPc = "fallback"
    /\ \E code \in ErrorCodes : fallbackError' = code
    /\ getResponse' = FetchFailed
    /\ getPc' = "done"
    /\ UNCHANGED <<waNumber, queryError, clock, reqVars, storeVars>>

NextRead ==
    \/ Get
    \/ QueryPrimary
    \/ QueryPrimaryRejects
    \/ QueryFallback
    \/ QueryFallbackRejects

SpecRead == InitRead /\ [][NextRead]_vars

\* ============================================================== properties
StatusHandlers == {"handleDeliveryStatus", "handleReadStatus"}
CreateHandlers == {"handleMessage", "handleTemplateMessage", "handleSessionMessage"}
\* Request r takes the step.
Steps(r) == pc'[r] # pc[r]
\* Request r's handler returns in this step.
Returns(r) == result[r] = None /\ result'[r] # None
HasLedgerEntry(r) == eventRef[r] \in 1..Len(ledger)

\* C1: a step that writes to whatsapp_messages, whatsapp_attachments or
\* webhook_responses is a step of a request whose ledger entry already exists,
\* still with processed = false.
C1_LedgerBeforeWrites ==
    [][(messages' # messages \/ attachments' # attachments
            \/ webhook_responses' # webhook_responses)
        => \E r \in Reqs : /\ Steps(r)
                           /\ HasLedgerEntry(r)
                           /\ ledger[eventRef[r]].processed = FALSE]_vars
\* A request has written its Message Record.
C1_Witness ==
    \E r \in Reqs : /\ result[r] # None
                    /\ result[r].status = "message_processed"
                    /\ DocExists(messages, event[r].id)
                    /\ HasLedgerEntry(r)

\* C2: a ledger entry is created with processed = false, changes only once,
\* from processed = false to processed = true with a processingResult, never
\* changes after that, and is never removed.
C2_LedgerStateMachine ==
    [][/\ Len(ledger') >= Len(ledger)
       /\ \A l \in 1..Len(ledger) :
            /\ ledger[l].processed = TRUE => ledger'[l] = ledger[l]
            /\ ledger'[l] # ledger[l] =>
                 /\ ledger[l].processed = FALSE
                 /\ ledger'[l].processed = TRUE
                 /\ Has(ledger'[l], "processingResult")
       /\ \A l \in (Len(ledger) + 1)..Len(ledger') : ledger'[l].processed = FALSE]_vars
\* Two requests are in the ledger, one annotated and one not; the one not
\* annotated came with a body that says processed: true.
C2_Witness ==
    \E l, m \in 1..Len(ledger) :
        /\ ledger[l].processed = TRUE
        /\ ledger[m].processed = FALSE
        /\ \E r \in Reqs : eventRef[r] = m /\ Has(event[r], "processed")

\* C3: an event whose eventType is a string outside the known set changes no
\* Message Record and no attachment, and once its request is over either a
\* ledger store call was rejected, or the response is 200 {success, eventId}
\* and its ledger entry is processed = true with status 'unhandled'.
IsUnknownType(ev) == Has(ev, "eventType") /\ ev.eventType \notin KnownTypes
C3_UnhandledDone ==
    \A r \in Reqs :
        (pc[r] = "done" /\ IsUnknownType(event[r])) =>
            \/ caught[r] = "UNAVAILABLE" /\ response[r] = InternalServerError
            \/ /\ caught[r] = "none"
               /\ response[r] = Success(eventRef[r])
               /\ HasLedgerEntry(r)
               /\ ledger[eventRef[r]].processed = TRUE
               /\ ledger[eventRef[r]].processingResult.status = "unhandled"
C3_UnhandledStep ==
    \A r \in Reqs :
        (Steps(r) /\ pc[r] # "idle" /\ IsUnknownType(event[r])) =>
            messages' = messages /\ attachments' = attachments
C3_Unhandled == []C3_UnhandledDone /\ [][C3_UnhandledStep]_vars
C3_Witness ==
    \E r \in Reqs : /\ pc[r] = "done"
                    /\ IsUnknownType(event[r])
                    /\ response[r] = Success(eventRef[r])

\* C4: no two documents of whatsapp_messages carry the same message id, and
\* the step in which handleMessage, handleTemplateMessage or
\* handleSessionMessage returns leaves exactly one document with the event's
\* id, adding at most that one document to the collection.
RecordsWithId(coll, id) == {d \in DOMAIN coll : coll[d].id = id}
C4_OnePerId ==
    \A d, e \in DOMAIN messages : messages[d].id = messages[e].id => d = e
C4_SetStep ==
    \A r \in Reqs :
        (Returns(r) /\ HandlerOf(event[r]) \in CreateHandlers) =>
            /\ Cardinality(RecordsWithId(messages', event[r].id)) = 1
            /\ DOMAIN messages' = DOMAIN messages \cup {event[r].id}
C4_Idempotent == []C4_OnePerId /\ [][C4_SetStep]_vars
\* The same IncomingMessage event was processed twice.
C4_Witness ==
    \E q, r \in Reqs :
        /\ q # r
        /\ event[q] = event[r]
        /\ HandlerOf(event[r]) = "handleMessage"
        /\ result[q] # None /\ result[r] # None
        /\ Cardinality(RecordsWithId(messages, event[r].id)) = 1

\* C5: the step a Delivered or Read request takes out of its handler, when
\* whatsapp_messages has no document at the event's id, leaves the set of ids
\* in whatsapp_messages as it was.
TargetMissing(ev) == ~Has(ev, "id") \/ ~(ev.id \in DOMAIN messages)
C5_NoCreateOnStatus ==
    [][\A r \in Reqs :
        (Steps(r) /\ pc[r] = "dispatch" /\ HandlerOf(event[r]) \in StatusHandlers
            /\ TargetMissing(event[r]))
        => DOMAIN messages' = DOMAIN messages]_vars
\* A Delivered or Read event was processed for an id that has no document.
C5_Witness ==
    \E r \in Reqs : /\ caught[r] = "NOT_FOUND"
                    /\ HandlerOf(event[r]) \in StatusHandlers
                    /\ ~DocExists(messages, event[r].id)

\* C6: once a Delivered or Read request is over whose id has no document in
\* whatsapp_messages (and whose timestamp is valid and whose store calls were
\* not rejected as unavailable), its response is 200 and its ledger entry is
\* processed = true with a processingResult.
C6_MissingTargetAcknowledged ==
    \A r \in Reqs :
        (/\ pc[r] = "done"
         /\ HandlerOf(event[r]) \in StatusHandlers
         /\ ~StatusThrows(event[r])
         /\ ~DocExists(messages, event[r].id)
         /\ caught[r] # "UNAVAILABLE") =>
            /\ response[r].status = 200
            /\ HasLedgerEntry(r)
            /\ ledger[eventRef[r]].processed = TRUE
            /\ Has(ledger[eventRef[r]], "processingResult")

\* C7: once a request is over whose handler's store call (whatsapp_messages or
\* webhook_responses) was rejected as unavailable after its ledger entry was
\* added, its response is 500 and its ledger entry has processed = false and
\* no processingResult.
C7_StoreUnavailable ==
    \A r \in Reqs :
        (/\ pc[r] = "done"
         /\ caught[r] = "UNAVAILABLE"
         /\ HasLedgerEntry(r)
         /\ result[r] = None) =>
            /\ response[r] = InternalServerError
            /\ ledger[eventRef[r]].processed = FALSE
            /\ ~Has(ledger[eventRef[r]], "processingResult")

\* C8: once a request is over whose event is of a known kind handled by
\* handleMessage, handleTemplateMessage, handleSessionMessage,
\* handleDeliveryStatus or handleReadStatus and carries no id (and whose store
\* calls were not rejected as unavailable), its response is 200, its ledger
\* entry is processed = true with a processingResult, and the step out of its
\* handler wrote no Message Record.
C8_MalformedAcknowledged ==
    \A r \in Reqs :
        (/\ pc[r] = "done"
         /\ HandlerOf(event[r]) \in CreateHandlers \cup StatusHandlers
         /\ ~Has(event[r], "id")
         /\ caught[r] # "UNAVAILABLE") =>
            /\ response[r].status = 200
            /\ HasLedgerEntry(r)
            /\ ledger[eventRef[r]].processed = TRUE
            /\ Has(ledger[eventRef[r]], "processingResult")

\* C9: the step in which handleDeliveryStatus (handleReadStatus) returns sets
\* the addressed record's status to 'delivered' ('read') and its deliveredAt
\* (readAt) to the event's timestamp, read as seconds, times 1000; it keeps
\* every other field the record had, apart from the raw copy of the status
\* event it stores, and changes no other record.
SecondsTimes1000(ts) == [i \in 1..Len(ts) |-> DigitVal(ts[i])] \o <<0, 0, 0>>
StatusKeys(h) ==
    IF h = "handleDeliveryStatus"
    THEN [status |-> "delivered", at |-> "deliveredAt", raw |-> "rawDeliveryData"]
    ELSE [status |-> "read", at |-> "readAt", raw |-> "rawReadData"]
C9_StatusStep ==
    \A r \in Reqs :
        (Returns(r) /\ HandlerOf(event[r]) \in StatusHandlers) =>
            LET id == event[r].id
                k == StatusKeys(HandlerOf(event[r]))
                written == {"status", k.at, k.raw}
            IN  /\ DocExists(messages, id)
                /\ messages'[id].status = k.status
                /\ ToMillis(messages'[id][k.at]) = SecondsTimes1000(event[r].timestamp)
                /\ DOMAIN messages'[id] = DOMAIN messages[id] \cup written
                /\ \A f \in DOMAIN messages[id] \ written :
                        messages'[id][f] = messages[id][f]
                /\ DOMAIN messages' = DOMAIN messages
                /\ \A d \in DOMAIN messages \ {id} : messages'[d] = messages[d]
C9_StatusUpdate == [][C9_StatusStep]_vars
\* sentMessageDELIVERED_v2 with timestamp "1700000500" was applied to a record
\* created by an earlier request, beside another record.
C9_Witness ==
    \E q, r \in Reqs :
        /\ result[r] # None /\ result[q] # None
        /\ HandlerOf(event[r]) = "handleDeliveryStatus"
        /\ event[r].eventType = "sentMessageDELIVERED_v2"
        /\ HandlerOf(event[q]) = "handleMessage"
        /\ event[q].id = event[r].id
        /\ Cardinality(DOMAIN messages) = 2
        /\ messages[event[r].id].status = "delivered"
        /\ messages[event[r].id].direction = "incoming"
        /\ ToMillis(messages[event[r].id].deliveredAt)
              = <<1, 7, 0, 0, 0, 0, 0, 5, 0, 0, 0, 0, 0>>

\* C10: the step in which handleMessage, handleTemplateMessage or
\* handleSessionMessage returns leaves at the event's id a document with
\* exactly the keys the handler projects, holding the event's own id, waId,
\* text and raw copy and the newly projected status; deliveredAt and readAt
\* of an earlier document are gone.
ProjectedKeys(h) ==
    {"id", "waId", "text", "type", "timestamp", "status", "direction", "rawData"}
        \cup (IF h = "handleTemplateMessage" THEN {"templateName"} ELSE {})
ProjectedStatus(ev) ==
    IF HandlerOf(ev) = "handleMessage" THEN "received"
    ELSE IF Has(ev, "statusString") THEN ToLowerCase(ev.statusString) ELSE "sent"
C10_SetStep ==
    \A r \in Reqs :
        (Returns(r) /\ HandlerOf(event[r]) \in CreateHandlers) =>
            LET ev == event[r]
                new == messages'[ev.id]
            IN  /\ DOMAIN new = ProjectedKeys(HandlerOf(ev))
                /\ new.id = ev.id /\ new.waId = ev.waId /\ new.text = ev.text
                /\ new.rawData = ev
                /\ new.status = ProjectedStatus(ev)
C10_FullOverwrite == [][C10_SetStep]_vars
\* A record was patched to delivered or read and then written again by a
\* create event: it no longer carries deliveredAt or readAt.
C10_Witness ==
    \E q, r \in Reqs :
        /\ result[q] # None /\ result[r] # None
        /\ HandlerOf(event[q]) \in StatusHandlers
        /\ HandlerOf(event[r]) \in CreateHandlers
        /\ event[q].id = event[r].id
        /\ DOMAIN messages[event[r].id] \cap {"deliveredAt", "readAt"} = {}

\* C11: once handleMediaMessage has returned 'media_processed' for an event
\* with id m, whatsapp_messages holds a document at m with status 'received'
\* and a mediaInfo, and whatsapp_attachments holds a document referencing m.
C11_MediaRecorded ==
    \A r \in Reqs :
        (/\ result[r] # None
         /\ HandlerOf(event[r]) = "handleMediaMessage"
         /\ result[r].status = "media_processed"
         /\ Has(event[r], "id")) =>
            /\ \E a \in 1..Len(attachments) :
                    attachments[a].whatsapp_message_id = event[r].id
            /\ DocExists(messages, event[r].id)
            /\ messages[event[r].id].status = "received"
            /\ Has(messages[event[r].id], "mediaInfo")

\* C12: once a request is over whose whatsapp_attachments.add() was rejected
\* (and no other store call of it was), its response is 200, its ledger entry
\* is processed = true with status 'media_insert_failed', and
\* whatsapp_messages holds a document at the event's id.
C12_AttachFailureAbsorbed ==
    \A r \in Reqs :
        (/\ pc[r] = "done"
         /\ result[r] # None
         /\ result[r].status = "media_insert_failed"
         /\ caught[r] = "none"
         /\ Has(event[r], "id")) =>
            /\ response[r] = Success(eventRef[r])
            /\ ledger[eventRef[r]].processed = TRUE
            /\ ledger[eventRef[r]].processingResult.status = "media_insert_failed"
            /\ DocExists(messages, event[r].id)

\* C16: once a request is over whose IncomingMessage event carries a timestamp
\* that is a string of digits (no other request writing the same id, no store
\* call rejected as unavailable), whatsapp_messages holds the record with the
\* timestamp normalized: the value itself as milliseconds if it is greater
\* than 9,999,999,999, the value times 1000 otherwise.
NormalizedNumeric(s) ==
    IF NumLE(ParseInt(s), SecMsBoundary) THEN Times1000(ParseInt(s)) ELSE ParseInt(s)
SoleWriter(r) ==
    \A q \in Reqs \ {r} : ~(Has(event[q], "id") /\ event[q].id = event[r].id)
C16_NumericStringNormalized ==
    \A r \in Reqs :
        (/\ pc[r] = "done"
         /\ HandlerOf(event[r]) = "handleMessage"
         /\ ~HasUndefined(event[r], {"id", "waId", "text", "type", "timestamp"})
         /\ IsDigits(event[r].timestamp)
         /\ SoleWriter(r)
         /\ caught[r] # "UNAVAILABLE") =>
            /\ DocExists(messages, event[r].id)
            /\ ToMillis(messages[event[r].id].timestamp)
                    = NormalizedNumeric(event[r].timestamp)

\* C17: once a request is over whose IncomingMessage, TemplateSent,
\* SessionSent, Delivered or Read event lacks its timestamp field (created for
\* TemplateSent) but carries its other fields, a Delivered or Read event
\* addressing an existing record (and no store call rejected as unavailable),
\* its response is 200, its ledger entry is processed = true, and every
\* stored Message Record has a timestamp.
TimestampKey(h) == IF h = "handleTemplateMessage" THEN "created" ELSE "timestamp"
OtherFieldsPresent(ev) ==
    CASE HandlerOf(ev) = "handleMessage" -> ~HasUndefined(ev, {"id", "waId", "text", "type"})
      [] HandlerOf(ev) = "handleTemplateMessage" ->
            ~HasUndefined(ev, {"id", "waId", "text", "templateName"})
      [] HandlerOf(ev) = "handleSessionMessage" -> ~HasUndefined(ev, {"id", "waId", "text"})
      [] OTHER -> Has(ev, "id") /\ DocExists(messages, ev.id)
C17_TimestampNeverFails ==
    /\ \A d \in DOMAIN messages : Has(messages[d], "timestamp")
    /\ \A r \in Reqs :
        (/\ pc[r] = "done"
         /\ HandlerOf(event[r]) \in CreateHandlers \cup StatusHandlers
         /\ ~Has(event[r], TimestampKey(HandlerOf(event[r])))
         /\ OtherFieldsPresent(event[r])
         /\ caught[r] # "UNAVAILABLE") =>
            /\ response[r] = Success(eventRef[r])
            /\ ledger[eventRef[r]].processed = TRUE

\* C18: a request that has answered 200 has its handler's result, its ledger
\* entry is processed = true with that result as processingResult, and (no
\* other request writing the same id) its set() or update() is in
\* whatsapp_messages; a request that has answered 500 and has a ledger entry
\* has it at processed = false; and a request takes no step after answering.
WriteIsStored(r) ==
    LET ev == event[r]
        h == HandlerOf(ev)
    IN  /\ h \in CreateHandlers =>
                DocExists(messages, ev.id) /\ messages[ev.id].rawData = ev
        /\ h = "handleDeliveryStatus" =>
                DocExists(messages, ev.id) /\ Has(messages[ev.id], "rawDeliveryData")
                    /\ messages[ev.id].rawDeliveryData = ev
        /\ h = "handleReadStatus" =>
                DocExists(messages, ev.id) /\ Has(messages[ev.id], "rawReadData")
                    /\ messages[ev.id].rawReadData = ev
C18_Answered ==
    \A r \in Reqs :
        /\ response[r].status = 200 =>
            /\ result[r] # None
            /\ HasLedgerEntry(r)
            /\ ledger[eventRef[r]].processed = TRUE
            /\ ledger[eventRef[r]].processingResult = result[r]
            /\ SoleWriter(r) => WriteIsStored(r)
        /\ (response[r].status = 500 /\ HasLedgerEntry(r)) =>
            ledger[eventRef[r]].processed = FALSE
C18_NoStepAfterAnswer ==
    \A r \in Reqs : response[r] # NoResponse => ~Steps(r)
C18_NoFireAndForget == []C18_Answered /\ [][C18_NoStepAfterAnswer]_vars
\* One request has answered 200 after its set(), another 500 after its ledger
\* entry was added.
C18_Witness ==
    \E q, r \in Reqs :
        /\ response[q].status = 200
        /\ HandlerOf(event[q]) \in CreateHandlers
        /\ response[r].status = 500
        /\ HasLedgerEntry(r)

\* C19: when a Delivered request and a Read request for the same existing id
\* are both over, in whatever order their steps interleaved (no other request
\* addressing that id, valid timestamps, no store call rejected as
\* unavailable), both answered 200, the record carries deliveredAt and readAt
\* of their own events, its status is 'delivered' or 'read', its other fields
\* are those it had, and each ledger entry carries its own request's result.
C19_ConcurrentStatus ==
    \A q, r \in Reqs :
        (/\ pc[q] = "done" /\ pc[r] = "done"
         /\ HandlerOf(event[q]) = "handleDeliveryStatus"
         /\ HandlerOf(event[r]) = "handleReadStatus"
         /\ ~StatusThrows(event[q]) /\ ~StatusThrows(event[r])
         /\ event[q].id = event[r].id
         /\ \A p \in Reqs \ {q, r} : ~(Has(event[p], "id") /\ event[p].id = event[q].id)
         /\ DocExists(messages, event[q].id)
         /\ caught[q] # "UNAVAILABLE" /\ caught[r] # "UNAVAILABLE") =>
            LET rec == messages[event[q].id] IN
            /\ response[q] = Success(eventRef[q])
            /\ response[r] = Success(eventRef[r])
            /\ eventRef[q] # eventRef[r]
            /\ ledger[eventRef[q]].processingResult = [status |-> "delivery_status_updated"]
            /\ ledger[eventRef[r]].processingResult = [status |-> "read_status_updated"]
            /\ Has(rec, "deliveredAt") /\ Has(rec, "readAt")
            /\ ToMillis(rec.deliveredAt) = SecondsTimes1000(event[q].timestamp)
            /\ ToMillis(rec.readAt) = SecondsTimes1000(event[r].timestamp)
            /\ rec.status \in {"delivered", "read"}
            /\ \A f \in DOMAIN SeedRecord \ {"status"} : rec[f] = SeedRecord[f]
\* Both are over, the Read patch having been applied before the Delivered one.
C19_Witness ==
    \E q, r \in Reqs :
        /\ pc[q] = "done" /\ pc[r] = "done"
        /\ HandlerOf(event[q]) = "handleDeliveryStatus"
        /\ HandlerOf(event[r]) = "handleReadStatus"
        /\ response[q].status = 200 /\ response[r].status = 200
        /\ event[q].id = event[r].id
        /\ eventRef[r] < eventRef[q]
        /\ messages[event[q].id].status = "delivered"
        /\ Has(messages[event[q].id], "readAt")

\* C20: a ledger entry that is not yet annotated has processed = false, a
\* receivedAt that is a reading of the server's clock, and no
\* processingResult, whatever keys the request body carries.
C20_ControlFieldsNotFromPayload ==
    \A l \in 1..Len(ledger) :
        ledger[l].processed = FALSE =>
            /\ \E c \in 0..MaxClock : ledger[l].receivedAt = TimestampNow(c)
            /\ ~Has(ledger[l], "processingResult")

\* ------------------------------------------------- GET /api/messages
Ids(views) == {views[i].id : i \in 1..Len(views)}
Range(s) == {s[i] : i \in 1..Len(s)}

\* C13: a 200 response served by the fallback query lists the same set of
\* records as the primary query returns from the same collection for the same
\* counterparty, and is the very sequence the primary path answers with.
C13_FallbackEqualsPrimary ==
    (getPc = "done" /\ queryError = FAILED_PRECONDITION /\ getResponse.status = 200) =>
        /\ Ids(getResponse.body) = Range(PrimaryQuery(messages, waNumber))
        /\ getResponse.body =
                SortByTimestamp(MapDocs(messages, PrimaryQuery(messages, waNumber), clock))

\* C14: a 200 response of GET /api/messages/:waNumber lists documents of
\* whatsapp_messages, each once, in non-decreasing order of their millisecond
\* timestamp, all of them of the requested counterparty, and at most 50 of
\* them, whichever query served it.
C14_SortedFilteredBounded ==
    getResponse.status = 200 =>
        LET body == getResponse.body IN
        /\ Len(body) <= QueryLimit
        /\ \A i \in 1..Len(body) :
            /\ body[i].id \in DOMAIN messages
            /\ body[i].waId = waNumber
            /\ Has(messages[body[i].id].timestamp, "seconds") =>
                    body[i].timestamp = ToMillis(messages[body[i].id].timestamp)
        /\ \A i, j \in 1..Len(body) :
            i < j => body[i].id # body[j].id /\ NumLE(body[i].timestamp, body[j].timestamp)
\* The fallback query served 50 documents it returned in another order than
\* the response lists them.
C14_Witness ==
    /\ getResponse.status = 200
    /\ queryError = FAILED_PRECONDITION
    /\ Len(getResponse.body) = QueryLimit
    /\ getResponse.body[1].id # FallbackQuery(messages, waNumber)[1]

\* C15: once the request is over, if the primary query rejected with code 9
\* and the fallback query did not reject, the response is 200 with the
\* documents the fallback query returned; and the response is 500 only if the
\* primary query rejected with another code or the fallback query rejected.
C15_DegradedQueryRecovered ==
    getPc = "done" =>
        /\ (queryError = FAILED_PRECONDITION /\ fallbackError = 0) =>
                /\ getResponse.status = 200
                /\ Ids(getResponse.body) = Range(FallbackQuery(messages, waNumber))
        /\ getResponse.status = 500 =>
                \/ queryError \in ErrorCodes \ {FAILED_PRECONDITION}
                \/ fallbackError \in ErrorCodes
        /\ getResponse.status \in {200, 500}
\* The primary query rejected with code 9 and the response lists documents.
C15_Witness ==
    /\ getPc = "done"
    /\ queryError = FAILED_PRECONDITION
    /\ getResponse.status = 200
    /\ Len(getResponse.body) > 0

====
